---------------------------- MODULE Spec2Model ----------------------------
(***************************************************************************)
(* Model of adafruit_tinylora.py: the TinyLoRa driver of an RFM95 radio.   *)
(* The driver object's fields are the state; every public method is an     *)
(* action.  A send is one step per register transaction: _write_u8 takes   *)
(* the SPI device and gives it back, and nothing is held from one write to *)
(* the next, so set_channel and set_datarate of another caller can run     *)
(* between any two of them, and in the polling loop, which is one step per *)
(* sample of the interrupt pin and one per time.sleep(1).  Every call      *)
(* keeps the register transactions it made and what they did on the SPI    *)
(* device.                                                                 *)
(***************************************************************************)
EXTENDS Integers, Sequences, FiniteSets, TLC

\* ------------------------------------------------------------ constants
\* RFM module settings and registers (adafruit_tinylora.py lines 51-70).
MODE_SLEEP == 0
MODE_LORA == 128
MODE_STDBY == 1
MODE_TX == 131
REG_FRF_MSB == 6
REG_FRF_MID == 7
REG_FRF_LSB == 8
REG_FEI_LSB == 30
REG_FEI_MSB == 29
REG_MODEM_CONFIG == 38
REG_PAYLOAD_LENGTH == 34
REG_FIFO_POINTER == 13
REG_FIFO_BASE_ADDR == 128
REG_OPERATING_MODE == 1
REG_VERSION == 66
REG_PREAMBLE_MSB == 32
REG_PREAMBLE_LSB == 33
\* Literals of send_data and send_packet.
REG_FIFO == 0
REG_DIO_MAPPING == 64
DIO_TXDONE == 64
STDBY_VALUE == 129
MAX_SEND_ATTEMPT == 15
LORA_PKT_SIZE == 64
HEADER_LEN == 9
MIC_LEN == 4
MHDR == 64
FPORT == 1
EXPECTED_VERSION == 18
RANDINT_MAX == 7
CHANNEL_MAX == 7
ByteMod == 256

\* ------------------------------------------------------------ bounds
\* Payload bytes are data[i] = (seed + 3*i) % 256 for seed in 0..MaxSeed.
MaxSeed == 1
\* set_channel is called with indices -1 .. CHANNEL_MAX + MaxOver.
MaxOver == 1
\* Payloads of up to MaxLen bytes are sent where the frame's content is not
\* the point, and of up to MaxPayload bytes where it is.
MaxLen == 2
MaxPayload == 56

\* ------------------------------------------------------------ helpers
\* Python's None and a present value: an optional is a sequence of length <= 1.
None == << >>
Some(x) == << x >>
IsNone(o) == Len(o) = 0
Get(o) == o[1]

\* Python's `needle in text` for strings, as sequences of characters.
Contains(text, needle) ==
    \E k \in 0..(Len(text) - Len(needle)) :
        \A j \in 1..Len(needle) : text[k + j] = needle[j]

Country_US == << "U", "S" >>
Country_AS == << "A", "S" >>
Country_AU == << "A", "U" >>
Country_EU == << "E", "U" >>
Country_XX == << "X", "X" >>
Country_AUS == << "A", "U", "S" >>

\* The byte at position b (0 = least significant) of a non-negative integer:
\* (x >> (8*b)) & 0xFF.
ByteOf(x, b) == (x \div (ByteMod ^ b)) % ByteMod

\* ------------------------------------------------------------ frequency plans
\* ttn_usa.py, ttn_as.py, ttn_au.py, ttn_eu.py: TTN_FREQS maps a channel 0..7
\* to a (MSB, MID, LSB) triplet.  A plan is written as the 24-bit word of
\* channel 0 and the step between neighbouring channels.
PlanBase(plan) ==
    CASE plan = "US" -> 14809536
      [] plan = "AS" -> 15125709
      [] plan = "AU" -> 15020851
      [] plan = "EU" -> 14222987

PlanStep == 3264

TTN_FREQS(plan, i) ==
    LET w == PlanBase(plan) + i * PlanStep
    IN  << ByteOf(w, 2), ByteOf(w, 1), ByteOf(w, 0) >>

\* ------------------------------------------------------------ state
VARIABLES
    phase,          \* "new", "idle", "failed" (constructor raised), and in a
                    \* send: "sending" (between two writes), "polling"
                    \* (at the loop condition), "sleeping" (in sleep(1))
    country,        \* ttn_config.country
    dev_addr,       \* ttn_config.device_address
    frequencies,    \* self._frequencies: Some(plan), or None when never assigned
    channel,        \* self._channel: Some(int) or None
    tx_random,      \* self._tx_random
    rfm_msb,        \* self._rfm_msb: Some(byte) or None
    rfm_mid,        \* self._rfm_mid
    rfm_lsb,        \* self._rfm_lsb
    sf,             \* self._sf
    bw,             \* self._bw
    modemcfg,       \* self._modemcfg
    frame_counter,  \* self.frame_counter
    call,           \* the call in progress or last finished, and its result
    log,            \* the register transactions of that call, in order
    lora_pkt,       \* send_data's frame buffer, as given to send_packet
    lora_pkt_len,   \* send_data's frame length, as given to send_packet
    send_attempt,   \* send_packet's local counter of the polling loop
    samples,        \* reads of self._irq.value made by the polling loop
    irq,            \* the value the last of these reads returned
    last_datarate,  \* history: the last name set_datarate accepted
    wire            \* what that call did on the SPI device, event by event

vars == << phase, country, dev_addr, frequencies, channel, tx_random,
           rfm_msb, rfm_mid, rfm_lsb, sf, bw, modemcfg, frame_counter,
           call, log, lora_pkt, lora_pkt_len, send_attempt, samples, irq,
           last_datarate, wire >>

freqVars == << rfm_msb, rfm_mid, rfm_lsb >>
rateVars == << sf, bw, modemcfg >>
sessionVars == << country, dev_addr, frequencies, channel >>


\* A register transaction as the log keeps it: the kind, the register
\* address and the value written or read back.
WriteTxn(address, val) == << "W", address, val >>
ReadTxn(address, val) == << "R", address, val >>

\* A call: the method, how it ended ("running" while a send is under way),
\* and its arguments: a datarate name, a channel index, the bytes given
\* (data of send_data, lora_packet of send_packet) and the length given
\* with them (data_length, packet_length).
NoCall ==
    [ op |-> "none", result |-> "ok", name |-> "", index |-> 0, data |-> << >>,
      length |-> 0 ]
Call(op, result, name, index, data, length) ==
    [ op |-> op, result |-> result, name |-> name, index |-> index,
      data |-> data, length |-> length ]

\* ------------------------------------------------------------ bus
\* One event on self._device: "enter" and "exit" of the `with` block, which
\* take and give back the device, a "write" of bytes (or "write_fails" when
\* the exchange raises), a "readinto" with the bytes received.
Ev(ev, bytes) == [ ev |-> ev, bytes |-> bytes ]

\* address | 0x80 and address & 0x7F on a byte.
SetBit7(address) == IF (address \div 128) % 2 = 1 THEN address ELSE address + 128
ClearBit7(address) == IF (address \div 128) % 2 = 1 THEN address - 128 ELSE address

\* A _write_u8 that keeps the device when the exchange fails.
WriteU8_HoldsOnFailure(address, val, fails) ==
    IF fails
    THEN << Ev("enter", << >>), Ev("write_fails", << SetBit7(address), val >>) >>
    ELSE << Ev("enter", << >>), Ev("write", << SetBit7(address), val >>),
            Ev("exit", << >>) >>

\* _write_u8(address, val): the exchange raises when fails; the `with`
\* block is left through __exit__ either way.
WriteU8(address, val, fails) ==
    << Ev("enter", << >>),
       Ev(IF fails THEN "write_fails" ELSE "write", << SetBit7(address), val >>),
       Ev("exit", << >>) >>

\* _write_u8(address, None): storing None into _BUFFER raises TypeError
\* inside the `with` block, before anything is exchanged.
WriteU8Refused == << Ev("enter", << >>), Ev("exit", << >>) >>

\* _read_u8(address) when the register answers v, or when the exchange of
\* the address byte raises.
ReadU8(address, v, fails) ==
    IF fails
    THEN << Ev("enter", << >>), Ev("write_fails", << ClearBit7(address) >>),
            Ev("exit", << >>) >>
    ELSE << Ev("enter", << >>), Ev("write", << ClearBit7(address) >>),
            Ev("readinto", << v >>), Ev("exit", << >>) >>

\* The events of one register transaction of the log.
TxnWire(t, fails) ==
    IF t[1] = "W" THEN WriteU8(t[2], t[3], fails) ELSE ReadU8(t[2], t[3], fails)

\* The events of the transactions txns, none of which fails.
RECURSIVE WireOf(_)
WireOf(txns) ==
    IF Len(txns) = 0 THEN << >>
    ELSE WireOf(SubSeq(txns, 1, Len(txns) - 1)) \o TxnWire(txns[Len(txns)], FALSE)

Init ==
    /\ phase = "new"
    /\ country = << >>
    /\ dev_addr = << >>
    /\ frequencies = None
    /\ channel = None
    /\ tx_random = 0
    /\ rfm_msb = None
    /\ rfm_mid = None
    /\ rfm_lsb = None
    /\ sf = None
    /\ bw = None
    /\ modemcfg = None
    /\ frame_counter = 0
    /\ call = NoCall
    /\ log = << >>
    /\ lora_pkt = << >>
    /\ lora_pkt_len = 0
    /\ send_attempt = 0
    /\ samples = 0
    /\ irq = FALSE
    /\ last_datarate = "SF7BW125"
    /\ wire = << >>

\* ------------------------------------------------------------ set_datarate
\* A chain whose SF11BW125 branch assigns the modem config of SF10BW125.
DatarateBytes_Mixed(datarate) ==
    IF datarate = "SF7BW125" THEN Some(<< 116, 114, 4 >>)
    ELSE IF datarate = "SF7BW250" THEN Some(<< 116, 130, 4 >>)
    ELSE IF datarate = "SF8BW125" THEN Some(<< 132, 114, 4 >>)
    ELSE IF datarate = "SF9BW125" THEN Some(<< 148, 114, 4 >>)
    ELSE IF datarate = "SF10BW125" THEN Some(<< 164, 114, 4 >>)
    ELSE IF datarate = "SF11BW125" THEN Some(<< 180, 114, 4 >>)
    ELSE IF datarate = "SF12BW125" THEN Some(<< 196, 114, 12 >>)
    ELSE None

\* The if/elif chain of set_datarate: the three bytes a name assigns, or
\* None for the final else, which raises TypeError and assigns nothing.
DatarateBytes(datarate) ==
    IF datarate = "SF7BW125" THEN Some(<< 116, 114, 4 >>)
    ELSE IF datarate = "SF7BW250" THEN Some(<< 116, 130, 4 >>)
    ELSE IF datarate = "SF8BW125" THEN Some(<< 132, 114, 4 >>)
    ELSE IF datarate = "SF9BW125" THEN Some(<< 148, 114, 4 >>)
    ELSE IF datarate = "SF10BW125" THEN Some(<< 164, 114, 4 >>)
    ELSE IF datarate = "SF11BW125" THEN Some(<< 180, 114, 12 >>)
    ELSE IF datarate = "SF12BW125" THEN Some(<< 196, 114, 12 >>)
    ELSE None

\* A set_datarate that falls back to SF7BW125 when it rejects a name.
SetDatarateEffect_Default(datarate, cur) ==
    LET row == DatarateBytes(datarate)
    IN  IF IsNone(row)
        THEN [ result |-> "TypeError", rate |-> << Some(116), Some(114), Some(4) >> ]
        ELSE [ result |-> "ok",
               rate |-> << Some(Get(row)[1]), Some(Get(row)[2]), Some(Get(row)[3]) >> ]

\* set_datarate(datarate) on stored bytes cur = <<_sf, _bw, _modemcfg>>.
SetDatarateEffect(datarate, cur) ==
    LET row == DatarateBytes(datarate)
    IN  IF IsNone(row)
        THEN [ result |-> "TypeError", rate |-> cur ]
        ELSE [ result |-> "ok",
               rate |-> << Some(Get(row)[1]), Some(Get(row)[2]), Some(Get(row)[3]) >> ]

\* ------------------------------------------------------------ set_channel
\* A set_channel that does not look at the mode of the driver.
SetChannelEffect_AnyMode(chan, freqs, c, cur) ==
    IF c \in 0..CHANNEL_MAX
    THEN IF IsNone(freqs)
         THEN [ result |-> "AttributeError_frequencies", rfm |-> cur ]
         ELSE [ result |-> "ok",
                rfm |-> << Some(TTN_FREQS(Get(freqs), c)[1]),
                           Some(TTN_FREQS(Get(freqs), c)[2]),
                           Some(TTN_FREQS(Get(freqs), c)[3]) >> ]
    ELSE [ result |-> "ok", rfm |-> cur ]

\* set_channel(c) on a driver whose _channel is chan, whose _frequencies is
\* freqs and whose stored triplet is cur = <<_rfm_msb, _rfm_mid, _rfm_lsb>>.
\* Reading self._frequencies when it was never assigned raises AttributeError.
SetChannelEffect(chan, freqs, c, cur) ==
    IF ~IsNone(chan)
    THEN IF c \in 0..CHANNEL_MAX
         THEN IF IsNone(freqs)
              THEN [ result |-> "AttributeError_frequencies", rfm |-> cur ]
              ELSE [ result |-> "ok",
                     rfm |-> << Some(TTN_FREQS(Get(freqs), c)[1]),
                                Some(TTN_FREQS(Get(freqs), c)[2]),
                                Some(TTN_FREQS(Get(freqs), c)[3]) >> ]
         ELSE [ result |-> "ok", rfm |-> cur ]
    ELSE [ result |-> "AttributeError_multichannel", rfm |-> cur ]

\* ------------------------------------------------------------ __init__
\* The regional frequency plan __init__ selects; None for the else branch,
\* which prints and assigns nothing.
ResolvePlan(c) ==
    IF Contains(c, Country_US) THEN Some("US")
    ELSE IF c = Country_AS THEN Some("AS")
    ELSE IF c = Country_AU THEN Some("AU")
    ELSE IF c = Country_EU THEN Some("EU")
    ELSE None

\* An __init__ that stops after a version read that is not the expected one.
InitTxns_StopOnMismatch(v) ==
    IF v = EXPECTED_VERSION
    THEN << ReadTxn(REG_VERSION, v),
            WriteTxn(REG_OPERATING_MODE, MODE_SLEEP),
            WriteTxn(REG_OPERATING_MODE, MODE_LORA),
            WriteTxn(9, 255),
            WriteTxn(31, 37),
            WriteTxn(REG_PREAMBLE_MSB, 0),
            WriteTxn(REG_PREAMBLE_LSB, 8),
            WriteTxn(38, 12),
            WriteTxn(57, 52),
            WriteTxn(51, 39),
            WriteTxn(59, 29),
            WriteTxn(14, 128),
            WriteTxn(15, 0) >>
    ELSE << ReadTxn(REG_VERSION, v) >>

\* The register transactions of __init__, after the version was read as v.
InitTxns(v) ==
    << ReadTxn(REG_VERSION, v),
       WriteTxn(REG_OPERATING_MODE, MODE_SLEEP),
       WriteTxn(REG_OPERATING_MODE, MODE_LORA),
       WriteTxn(9, 255),
       WriteTxn(31, 37),
       WriteTxn(REG_PREAMBLE_MSB, 0),
       WriteTxn(REG_PREAMBLE_LSB, 8),
       WriteTxn(38, 12),
       WriteTxn(57, 52),
       WriteTxn(51, 39),
       WriteTxn(59, 29),
       WriteTxn(14, 128),
       WriteTxn(15, 0) >>

\* TinyLoRa(spi, cs, irq, TTN(addr, ..., country=c), channel=ch), where the
\* constructor's randint draws r and the version register reads v.
Construct(c, addr, ch, r, v) ==
    LET rate == SetDatarateEffect("SF7BW125", << None, None, None >>).rate
        plan == ResolvePlan(c)
        sc   == IF IsNone(ch)
                THEN [ result |-> "ok", rfm |-> << None, None, None >> ]
                ELSE SetChannelEffect(ch, plan, Get(ch), << None, None, None >>)
    IN  /\ phase = "new"
        /\ country' = c
        /\ dev_addr' = addr
        /\ sf' = rate[1]
        /\ bw' = rate[2]
        /\ modemcfg' = rate[3]
        /\ frequencies' = plan
        /\ channel' = ch
        /\ tx_random' = r
        /\ rfm_msb' = sc.rfm[1]
        /\ rfm_mid' = sc.rfm[2]
        /\ rfm_lsb' = sc.rfm[3]
        /\ frame_counter' = 0
        /\ IF sc.result = "ok"
           THEN /\ phase' = "idle"
                /\ log' = InitTxns(v)
                /\ wire' = WireOf(InitTxns(v))
                /\ call' = Call("init", "ok", "", 0, << >>, 0)
           ELSE /\ phase' = "failed"
                /\ log' = << >>
                /\ wire' = << >>
                /\ call' = Call("init", sc.result, "", 0, << >>, 0)
        /\ UNCHANGED << lora_pkt, lora_pkt_len, send_attempt, samples, irq,
                        last_datarate >>

\* The variables that describe one call; every call starts by clearing them.
ClearSend ==
    /\ lora_pkt' = << >>
    /\ lora_pkt_len' = 0
    /\ send_attempt' = 0
    /\ samples' = 0
    /\ irq' = FALSE

\* The record of the call in progress, which a call of another caller
\* leaves alone.
KeepSend ==
    UNCHANGED << call, log, wire, lora_pkt, lora_pkt_len, send_attempt, samples,
                 irq >>

\* lora.set_datarate(datarate): the next call of the caller when the driver
\* is idle, a call of another caller while a send is between two steps.
SetDatarate(datarate) ==
    LET e == SetDatarateEffect(datarate, << sf, bw, modemcfg >>)
    IN  /\ phase \in { "idle", "sending", "polling", "sleeping" }
        /\ sf' = e.rate[1]
        /\ bw' = e.rate[2]
        /\ modemcfg' = e.rate[3]
        /\ last_datarate' = IF e.result = "ok" THEN datarate ELSE last_datarate
        /\ IF phase = "idle"
           THEN /\ call' = Call("set_datarate", e.result, datarate, 0, << >>, 0)
                /\ log' = << >>
                /\ wire' = << >>
                /\ ClearSend
           ELSE KeepSend
        /\ UNCHANGED << phase, sessionVars, tx_random, freqVars, frame_counter >>

\* lora.set_channel(c): the next call of the caller when the driver is
\* idle, a call of another caller while a send is between two steps.
SetChannel(c) ==
    LET e == SetChannelEffect(channel, frequencies, c, << rfm_msb, rfm_mid, rfm_lsb >>)
    IN  /\ phase \in { "idle", "sending", "polling", "sleeping" }
        /\ rfm_msb' = e.rfm[1]
        /\ rfm_mid' = e.rfm[2]
        /\ rfm_lsb' = e.rfm[3]
        /\ IF phase = "idle"
           THEN /\ call' = Call("set_channel", e.result, "", c, << >>, 0)
                /\ log' = << >>
                /\ wire' = << >>
                /\ ClearSend
           ELSE KeepSend
        /\ UNCHANGED << phase, sessionVars, tx_random, rateVars, frame_counter,
                        last_datarate >>


\* ------------------------------------------------------------ crypto service
\* adafruit_tinylora_encryption.AES.  encrypt returns a ciphertext of the
\* plaintext's length; calculate_mic returns a 4-byte tag of the first n
\* bytes of the frame.  Both depend on the device address and the frame
\* counter (the keys are fixed for a session and are left out).
RECURSIVE SumBytes(_, _)
SumBytes(buf, n) == IF n = 0 THEN 0 ELSE buf[n] + SumBytes(buf, n - 1)

RECURSIVE Encrypt(_, _, _)
Encrypt(addr, fc, data) ==
    IF Len(data) = 0 THEN << >>
    ELSE Append(Encrypt(addr, fc, SubSeq(data, 1, Len(data) - 1)),
                (data[Len(data)] + addr[1] + 5 * fc + 11 * Len(data) + 1) % ByteMod)

CalculateMic(addr, fc, buf, n) ==
    LET s == SumBytes(buf, n) + addr[4] + fc
    IN  << (s + 1) % ByteMod, ByteOf(s, 1), (7 * n + 3) % ByteMod,
           (s + n + 2) % ByteMod >>

\* ------------------------------------------------------------ send_data
\* bytearray(n): n zero bytes.
RECURSIVE ByteArray(_)
ByteArray(n) == IF n = 0 THEN << >> ELSE Append(ByteArray(n - 1), 0)

\* A store that takes the last index of the buffer for out of range.
StoreBytes_OffByOne(buf, start, bytes) ==
    IF start + Len(bytes) >= Len(buf)
    THEN [ ok |-> FALSE, buf |-> buf ]
    ELSE [ ok |-> TRUE,
           buf |-> SubSeq(buf, 1, start) \o bytes
                   \o SubSeq(buf, start + Len(bytes) + 1, Len(buf)) ]

\* for i in range(len(bytes)): buf[start + i] = bytes[i], on a bytearray:
\* an index past the end raises IndexError.
StoreBytes(buf, start, bytes) ==
    IF start + Len(bytes) > Len(buf)
    THEN [ ok |-> FALSE, buf |-> buf ]
    ELSE [ ok |-> TRUE,
           buf |-> SubSeq(buf, 1, start) \o bytes
                   \o SubSeq(buf, start + Len(bytes) + 1, Len(buf)) ]

\* A header that copies the device address in its stored order.
Header_AddressInOrder(addr, fc) ==
    << MHDR, addr[1], addr[2], addr[3], addr[4], 0,
       ByteOf(fc, 0), ByteOf(fc, 1), FPORT >>

\* lora_pkt[0..8] of send_data.
Header(addr, fc) ==
    << MHDR, addr[4], addr[3], addr[2], addr[1], 0,
       ByteOf(fc, 0), ByteOf(fc, 1), FPORT >>

\* send_data up to its call of send_packet, for the first data_length
\* bytes of data: the frame buffer and length it hands over, or the
\* IndexError of the copy of data (data_length > len(data), before the frame
\* counter is stored) or of a store past the 64-byte buffer (after it).
AssembleFrame(addr, data, data_length, fc) ==
    IF data_length > Len(data)
    THEN [ result |-> "IndexError", pkt |-> << >>, len |-> 0, counted |-> FALSE ]
    ELSE
    LET enc  == Encrypt(addr, fc, SubSeq(data, 1, data_length))
        hdr  == StoreBytes(ByteArray(LORA_PKT_SIZE), 0, Header(addr, fc))
        body == StoreBytes(hdr.buf, HEADER_LEN, enc)
        n    == HEADER_LEN + data_length
        mic  == CalculateMic(addr, fc, body.buf, n)
        full == StoreBytes(body.buf, n, mic)
    IN  IF ~body.ok
        THEN [ result |-> "IndexError", pkt |-> << >>, len |-> 0, counted |-> TRUE ]
        ELSE IF ~full.ok
        THEN [ result |-> "IndexError", pkt |-> << >>, len |-> 0, counted |-> TRUE ]
        ELSE [ result |-> "ok", pkt |-> full.buf, len |-> n + MIC_LEN,
               counted |-> TRUE ]

\* ------------------------------------------------------------ send_packet
\* A FIFO loop whose frame pointer k never advances.
RECURSIVE FifoTxns_StuckPointer(_, _)
FifoTxns_StuckPointer(pkt, n) ==
    IF n = 0 THEN << >>
    ELSE IF n > Len(pkt) THEN FifoTxns_StuckPointer(pkt, n - 1)
    ELSE Append(FifoTxns_StuckPointer(pkt, n - 1), WriteTxn(REG_FIFO, pkt[1]))

\* The FIFO loop of send_packet: one write of register 0x00 per frame byte;
\* when packet_length n is more than the packet holds, the writes made
\* before lora_packet[k] raises IndexError.
RECURSIVE FifoTxns(_, _)
FifoTxns(pkt, n) ==
    IF n = 0 THEN << >>
    ELSE IF n > Len(pkt) THEN FifoTxns(pkt, n - 1)
    ELSE Append(FifoTxns(pkt, n - 1), WriteTxn(REG_FIFO, pkt[n]))

\* The first write of send_packet, which time.sleep(0.01) follows, and the
\* write after it.
StandbyTxn == WriteTxn(MODE_STDBY, STDBY_VALUE)
DioTxn == WriteTxn(REG_DIO_MAPPING, DIO_TXDONE)

\* A send_packet that resets the FIFO pointer after filling the FIFO.
TransmitTxns_LateReset(f, r, pkt, n) ==
    << WriteTxn(REG_FRF_MSB, f[1]),
       WriteTxn(REG_FRF_MID, f[2]),
       WriteTxn(REG_FRF_LSB, f[3]),
       WriteTxn(REG_FEI_LSB, r[1]),
       WriteTxn(REG_FEI_MSB, r[2]),
       WriteTxn(REG_MODEM_CONFIG, r[3]),
       WriteTxn(REG_PAYLOAD_LENGTH, n) >>
    \o FifoTxns(pkt, n)
    \o << WriteTxn(REG_FIFO_POINTER, REG_FIFO_BASE_ADDR),
          WriteTxn(REG_OPERATING_MODE, MODE_TX) >>

\* A send_packet that writes the transmit trigger a second time.
TransmitTxns_Retransmit(f, r, pkt, n) ==
    << WriteTxn(REG_FRF_MSB, f[1]),
       WriteTxn(REG_FRF_MID, f[2]),
       WriteTxn(REG_FRF_LSB, f[3]),
       WriteTxn(REG_FEI_LSB, r[1]),
       WriteTxn(REG_FEI_MSB, r[2]),
       WriteTxn(REG_MODEM_CONFIG, r[3]),
       WriteTxn(REG_PAYLOAD_LENGTH, n),
       WriteTxn(REG_FIFO_POINTER, REG_FIFO_BASE_ADDR) >>
    \o FifoTxns(pkt, n)
    \o << WriteTxn(REG_OPERATING_MODE, MODE_TX),
          WriteTxn(REG_OPERATING_MODE, MODE_TX) >>

\* The writes of send_packet from the frequency registers to the transmit
\* trigger, for the triplet f and the datarate bytes r.
TransmitTxns(f, r, pkt, n) ==
    << WriteTxn(REG_FRF_MSB, f[1]),
       WriteTxn(REG_FRF_MID, f[2]),
       WriteTxn(REG_FRF_LSB, f[3]),
       WriteTxn(REG_FEI_LSB, r[1]),
       WriteTxn(REG_FEI_MSB, r[2]),
       WriteTxn(REG_MODEM_CONFIG, r[3]),
       WriteTxn(REG_PAYLOAD_LENGTH, n),
       WriteTxn(REG_FIFO_POINTER, REG_FIFO_BASE_ADDR) >>
    \o FifoTxns(pkt, n)
    \o << WriteTxn(REG_OPERATING_MODE, MODE_TX) >>

\* The transaction that ends send_packet.
SleepTxn == WriteTxn(REG_OPERATING_MODE, MODE_SLEEP)

\* The transactions txns with the at-th one failing on the bus (at = 0: none
\* fails): those before it went through, it and the later ones did not.
Issue(txns, at) ==
    IF at \in 1..Len(txns)
    THEN [ result |-> "OSError", done |-> SubSeq(txns, 1, at - 1),
           wire |-> WireOf(SubSeq(txns, 1, at - 1)) \o TxnWire(txns[at], TRUE) ]
    ELSE [ result |-> "ok", done |-> txns, wire |-> WireOf(txns) ]

\* The first register transaction of send_packet: the standby write (which
\* fails on the bus when at = 1).
SendPacketStart(at) == Issue(<< StandbyTxn >>, at)

\* The byte a register write is built from; a field that is None stands as 0
\* in the list of writes and is refused when its write comes.
ByteArg(o) == IF IsNone(o) THEN 0 ELSE Get(o)

\* A send_packet that goes on to its next write after an exception.
PhaseAfter_GoesOn(result, last) == IF last THEN "polling" ELSE "sending"

\* Where send_packet is after a register transaction: out of the call when
\* it raised, in the polling loop after the last one, else before the next.
PhaseAfter(result, last) ==
    IF result # "ok" THEN "idle"
    ELSE IF last THEN "polling"
    ELSE "sending"

\* The i-th register transaction of send_packet(pkt, n), i >= 2, on a driver
\* in hopping mode (hop) or not, with plan freqs, and with the stored triplet
\* cur and datarate bytes r as they are when the write is made.  Before the
\* third one the frequency is resolved: rnd is what randint draws.  fails:
\* the transaction fails on the bus.  When n is more than pkt holds, the
\* FIFO loop raises IndexError at the first index past the packet.
SendPacketTxn(i, hop, freqs, cur, r, pkt, n, rnd, fails) ==
    LET resolve == hop /\ i = 3
        f       == IF resolve /\ ~IsNone(freqs)
                   THEN << Some(TTN_FREQS(Get(freqs), rnd)[1]),
                           Some(TTN_FREQS(Get(freqs), rnd)[2]),
                           Some(TTN_FREQS(Get(freqs), rnd)[3]) >>
                   ELSE cur
        args    == f \o r
        txns    == << StandbyTxn, DioTxn >>
                   \o TransmitTxns(<< ByteArg(f[1]), ByteArg(f[2]), ByteArg(f[3]) >>,
                                   << ByteArg(r[1]), ByteArg(r[2]), ByteArg(r[3]) >>,
                                   pkt, n)
        w       == Issue(<< txns[i] >>, IF fails THEN 1 ELSE 0)
    IN  IF resolve /\ IsNone(freqs)
        THEN [ result |-> "AttributeError_frequencies", done |-> << >>,
               rfm |-> cur, drew |-> TRUE, wire |-> << >>, last |-> FALSE ]
        ELSE IF i \in 3..8 /\ IsNone(args[i - 2])
        THEN [ result |-> "TypeError", done |-> << >>, rfm |-> f,
               drew |-> resolve, wire |-> WriteU8Refused, last |-> FALSE ]
        ELSE IF i \in 11..(10 + n) /\ i - 10 > Len(pkt)
        THEN [ result |-> "IndexError", done |-> << >>, rfm |-> f,
               drew |-> resolve, wire |-> << >>, last |-> FALSE ]
        ELSE [ result |-> w.result, done |-> w.done, rfm |-> f,
               drew |-> resolve, wire |-> w.wire, last |-> i = Len(txns) ]

\* lora.send_data(data, data_length, fc) up to the standby write of
\* send_packet; at = 1 when that write fails on the bus (0: not).
SendData(data, data_length, fc, at) ==
    /\ phase = "idle"
    /\ \E asm \in { AssembleFrame(dev_addr, data, data_length, fc) } :
       \E sp \in { SendPacketStart(at) } :
        /\ frame_counter' = IF asm.counted THEN fc ELSE frame_counter
        /\ lora_pkt' = asm.pkt
        /\ lora_pkt_len' = asm.len
        /\ send_attempt' = 0
        /\ samples' = 0
        /\ irq' = FALSE
        /\ IF asm.result # "ok"
           THEN /\ call' = Call("send_data", asm.result, "", 0, data, data_length)
                /\ log' = << >>
                /\ wire' = << >>
                /\ UNCHANGED phase
           ELSE /\ call' = Call("send_data",
                                IF sp.result = "ok" THEN "running" ELSE sp.result,
                                "", 0, data, data_length)
                /\ log' = sp.done
                /\ wire' = sp.wire
                /\ phase' = IF sp.result = "ok" THEN "sending" ELSE "idle"
    /\ UNCHANGED << sessionVars, tx_random, freqVars, rateVars, last_datarate >>

\* lora.send_packet(pkt, n), called directly, up to its standby write.
SendPacket(pkt, n, at) ==
    /\ phase = "idle"
    /\ \E sp \in { SendPacketStart(at) } :
        /\ call' = Call("send_packet",
                        IF sp.result = "ok" THEN "running" ELSE sp.result,
                        "", 0, pkt, n)
        /\ log' = sp.done
        /\ wire' = sp.wire
        /\ phase' = IF sp.result = "ok" THEN "sending" ELSE "idle"
    /\ lora_pkt' = pkt
    /\ lora_pkt_len' = n
    /\ send_attempt' = 0
    /\ samples' = 0
    /\ irq' = FALSE
    /\ UNCHANGED << sessionVars, tx_random, freqVars, rateVars, frame_counter,
                    last_datarate >>

\* The next register transaction of the send in progress, from the DIO
\* mapping write to the transmit trigger: the transactions made so far are
\* in log.  randint is called in hopping mode only, before the third
\* transaction, and draws from draws.
SendPacketStep(draws, fails) ==
    /\ phase = "sending"
    /\ \E rnd \in IF IsNone(channel) /\ Len(log) = 2 THEN draws ELSE { tx_random } :
       \E sp \in { SendPacketTxn(Len(log) + 1, IsNone(channel), frequencies,
                                 << rfm_msb, rfm_mid, rfm_lsb >>,
                                 << sf, bw, modemcfg >>,
                                 lora_pkt, lora_pkt_len, rnd, fails) } :
        /\ call' = [ call EXCEPT
                         !.result = IF sp.result = "ok" THEN "running" ELSE sp.result ]
        /\ log' = log \o sp.done
        /\ wire' = wire \o sp.wire
        /\ phase' = PhaseAfter(sp.result, sp.last)
        /\ tx_random' = IF sp.drew THEN rnd ELSE tx_random
        /\ rfm_msb' = sp.rfm[1]
        /\ rfm_mid' = sp.rfm[2]
        /\ rfm_lsb' = sp.rfm[3]
    /\ UNCHANGED << sessionVars, rateVars, frame_counter, lora_pkt, lora_pkt_len,
                    send_attempt, samples, irq, last_datarate >>

\* A polling loop that allows one attempt more.
KeepWaiting_OneMore(irq_value, attempt) == ~irq_value /\ attempt <= MAX_SEND_ATTEMPT

\* The condition of send_packet's polling loop, for the pin value just read.
KeepWaiting(irq_value, attempt) == ~irq_value /\ attempt < MAX_SEND_ATTEMPT

\* One evaluation of the loop condition that enters the body: the pin is
\* read as not asserted and the call goes into time.sleep(1).
PollWait ==
    /\ phase = "polling"
    /\ KeepWaiting(FALSE, send_attempt)
    /\ samples' = samples + 1
    /\ irq' = FALSE
    /\ phase' = "sleeping"
    /\ UNCHANGED << sessionVars, tx_random, freqVars, rateVars,
                    frame_counter, call, log, wire, lora_pkt, lora_pkt_len,
                    send_attempt, last_datarate >>

\* The end of the loop body: time.sleep(1) returns, the attempt is counted
\* and the call is at the loop condition again.
PollWake ==
    /\ phase = "sleeping"
    /\ send_attempt' = send_attempt + 1
    /\ phase' = "polling"
    /\ UNCHANGED << sessionVars, tx_random, freqVars, rateVars,
                    frame_counter, call, log, wire, lora_pkt, lora_pkt_len,
                    samples, irq, last_datarate >>

\* The evaluation of the loop condition that leaves the loop, with the pin
\* read as irq_value, and the write that puts the radio to sleep (which
\* fails on the bus when fails).
PollExit(irq_value, fails) ==
    LET w == Issue(<< SleepTxn >>, IF fails THEN 1 ELSE 0)
    IN  /\ phase = "polling"
        /\ ~KeepWaiting(irq_value, send_attempt)
        /\ samples' = samples + 1
        /\ irq' = irq_value
        /\ log' = log \o w.done
        /\ wire' = wire \o w.wire
        /\ call' = [ call EXCEPT !.result = w.result ]
        /\ phase' = "idle"
        /\ UNCHANGED << sessionVars, tx_random, freqVars, rateVars,
                        frame_counter, lora_pkt, lora_pkt_len, send_attempt,
                        last_datarate >>

\* ------------------------------------------------------------ inputs
Countries == { Country_US, Country_AS, Country_AU, Country_EU, Country_XX,
               Country_AUS }
Addresses == { << 170, 187, 204, 221 >>, << 1, 2, 3, 4 >> }
Versions == { EXPECTED_VERSION, 0 }
ChannelArgs == { None } \cup { Some(c) : c \in -1..(CHANNEL_MAX + MaxOver) }
ChannelIndices == -1..(CHANNEL_MAX + MaxOver)
RandDraws == 0..RANDINT_MAX
DatarateNames == { "SF7BW125", "SF7BW250", "SF8BW125", "SF9BW125",
                   "SF10BW125", "SF11BW125", "SF12BW125" }
BadDatarateNames == { "SF6BW125", "sf7bw125", "" }
RECURSIVE Payload(_, _)
Payload(n, seed) ==
    IF n = 0 THEN << >>
    ELSE Append(Payload(n - 1, seed), (seed + 3 * n) % ByteMod)


\* ------------------------------------------------------------ specifications
\* Spec: the configuration calls on every kind of driver, with short sends
\* between them and configuration calls of another caller during a send
\* of a send.
ConstructAny ==
    \E c \in { Country_US, Country_EU, Country_XX },
       ch \in { None, Some(0), Some(CHANNEL_MAX + MaxOver) },
       r \in { 0, RANDINT_MAX } :
        Construct(c, << 1, 2, 3, 4 >>, ch, r, EXPECTED_VERSION)

SetDatarateAny ==
    \E d \in DatarateNames \cup BadDatarateNames :
        phase = "idle" /\ SetDatarate(d)

SetChannelAny ==
    \E c \in ChannelIndices :
        phase = "idle" /\ SetChannel(c)

SetDatarateMeanwhile ==
    \E d \in { "SF12BW125", "SF6BW125" } :
        phase # "idle" /\ SetDatarate(d)

SetChannelMeanwhile ==
    \E c \in { 5, CHANNEL_MAX + MaxOver } :
        phase # "idle" /\ SetChannel(c)

SendShort ==
    SendData(Payload(1, 0), 1, 1, 0)

StepShort ==
    SendPacketStep({ 0, RANDINT_MAX }, FALSE)

PollExitClean ==
    \E v \in BOOLEAN : PollExit(v, FALSE)

Next ==
    \/ ConstructAny
    \/ SetDatarateAny
    \/ SetChannelAny
    \/ SetDatarateMeanwhile
    \/ SetChannelMeanwhile
    \/ SendShort
    \/ StepShort
    \/ PollWait
    \/ PollWake
    \/ PollExitClean

Spec == Init /\ [][Next]_vars

\* SpecInit: construction alone, over every country, channel argument,
\* random draw and version read.
ConstructAll ==
    \E c \in Countries, a \in Addresses, ch \in ChannelArgs, r \in RandDraws,
       v \in Versions :
        Construct(c, a, ch, r, v)

NextInit == ConstructAll

SpecInit == Init /\ [][NextInit]_vars

\* SpecSend: sends on drivers of both modes, with and without a frequency
\* plan, under every behaviour of the interrupt pin and of the bus, with
\* direct calls of send_packet and with configuration calls of another
\* caller between the steps of a send.
ConstructForSend ==
    \E c \in { Country_US, Country_XX },
       ch \in { None, Some(3), Some(CHANNEL_MAX + MaxOver) },
       r \in { 0, RANDINT_MAX } :
        Construct(c, << 1, 2, 3, 4 >>, ch, r, EXPECTED_VERSION)

SendAnyFault ==
    \E n \in 0..MaxLen, at \in 0..1 :
        SendData(Payload(n, 0), n, 300, at)

\* A packet for direct calls of send_packet, given with a length of 0, of
\* its own length, and of more than it holds.
DirectPacket == << 64, 4, 3, 2, 1 >>
DirectLengths == { 0, Len(DirectPacket), Len(DirectPacket) + MaxLen + 1 }

SendPacketAnyFault ==
    \E n \in DirectLengths, at \in 0..1 :
        SendPacket(DirectPacket, n, at)

StepAnyFault ==
    \E fails \in BOOLEAN :
        SendPacketStep({ 0, RANDINT_MAX }, fails)

PollExitAny ==
    \E v \in BOOLEAN, fails \in BOOLEAN : PollExit(v, fails)

NextSend ==
    \/ ConstructForSend
    \/ SendAnyFault
    \/ SendPacketAnyFault
    \/ StepAnyFault
    \/ SetDatarateMeanwhile
    \/ SetChannelMeanwhile
    \/ PollWait
    \/ PollWake
    \/ PollExitAny

SpecSend == Init /\ [][NextSend]_vars

\* SpecPoll: SpecSend with the scheduling of the polling loop: a call that
\* is polling goes on to evaluate its loop condition, and one that sleeps
\* wakes up.
PollStep == PollWait \/ PollWake \/ PollExitAny

SpecPoll == SpecSend /\ WF_vars(PollStep)

\* SpecFrame: frames of payloads around the capacity of the frame buffer,
\* given with their own length, one less and one more, and direct calls of
\* send_packet, with the interrupt pin asserted at the first sample.
PayloadLengths == { 0, 1 } \cup (50..MaxPayload)
DataLengths(n) == { n - 1, n, n + 1 } \cap Nat

ConstructForFrame ==
    \E c \in { Country_US, Country_XX }, a \in Addresses,
       ch \in { None, Some(0) } :
        Construct(c, a, ch, 0, EXPECTED_VERSION)

SendFrame ==
    \E n \in PayloadLengths, seed \in 0..MaxSeed, fc \in { 0, 300, 65836 } :
    \E dl \in DataLengths(n) :
        SendData(Payload(n, seed), dl, fc, 0)

SendPacketFrame ==
    \E n \in DirectLengths : SendPacket(DirectPacket, n, 0)

StepFrame ==
    SendPacketStep({ RANDINT_MAX }, FALSE)

PollExitAsserted == PollExit(TRUE, FALSE)

NextFrame ==
    \/ ConstructForFrame
    \/ SendFrame
    \/ SendPacketFrame
    \/ StepFrame
    \/ PollExitAsserted

SpecFrame == Init /\ [][NextFrame]_vars


\* ------------------------------------------------------------ properties
\* The call is a send: send_data, or send_packet called directly.
SendCall == call.op \in { "send_data", "send_packet" }

\* A send that has returned.
SendReturned == SendCall /\ phase = "idle"

\* C1: every send_packet call that completes issues its register writes in
\* this order and no others: operating mode (0x01) to standby, DIO mapping
\* (0x40), frequency 0x06, 0x07, 0x08, the three datarate registers, payload
\* length (0x22), FIFO pointer (0x0D) to the transmit base 0x80, one FIFO
\* write (0x00) per frame byte, operating mode to transmit (0x83), then the
\* polling, during which nothing is written, then operating mode to sleep.
C1_Register(i, n) ==
    CASE i = 1 -> 1
      [] i = 2 -> 64
      [] i = 3 -> 6
      [] i = 4 -> 7
      [] i = 5 -> 8
      [] i = 6 -> 30
      [] i = 7 -> 29
      [] i = 8 -> 38
      [] i = 9 -> 34
      [] i = 10 -> 13
      [] i \in 11..(10 + n) -> 0
      [] i = 11 + n -> 1
      [] OTHER -> -1

C1_UpToTransmit(l, n) ==
    /\ Len(l) = 11 + n
    /\ \A i \in 1..Len(l) : l[i][1] = "W"
    /\ l[1][2] = 1 /\ l[1][3] % 8 = 1
    /\ l[2][2] = 64
    /\ l[3][2] = 6 /\ l[4][2] = 7 /\ l[5][2] = 8
    /\ { l[6][2], l[7][2], l[8][2] } = { 29, 30, 38 }
    /\ l[9][2] = 34
    /\ l[10] = << "W", 13, 128 >>
    /\ \A k \in 1..n : l[10 + k][2] = 0
    /\ l[11 + n] = << "W", 1, 131 >>

\* C1: the writes of a send are in the documented order, as far as it has
\* come: between two writes, in the polling loop and when it has completed.
C1_WriteOrder ==
    /\ phase = "sending" =>
           /\ Len(log) \in 1..(10 + lora_pkt_len)
           /\ log[1][3] % 8 = 1
           /\ \A i \in 1..Len(log) :
                  log[i][1] = "W" /\ log[i][2] = C1_Register(i, lora_pkt_len)
    /\ phase \in { "polling", "sleeping" } => C1_UpToTransmit(log, lora_pkt_len)
    /\ (SendReturned /\ call.result = "ok") =>
           /\ Len(log) = 12 + lora_pkt_len
           /\ C1_UpToTransmit(SubSeq(log, 1, 11 + lora_pkt_len), lora_pkt_len)
           /\ log[12 + lora_pkt_len] = << "W", 1, 0 >>

\* A completed send of a non-empty payload that slept at least once.
C1_Witness ==
    /\ SendReturned /\ call.result = "ok"
    /\ Len(call.data) > 0 /\ send_attempt > 0

\* C2 as stated: counting one attempt per sample of the interrupt pin, the
\* polling loop makes at most 15 attempts, and exactly 1 without a sleep
\* when the pin is asserted at the first sample.
C2_AtMostFifteenSamples ==
    /\ ~irq => samples <= 15
    /\ (SendReturned /\ samples > 0 /\ send_attempt = 0) => samples = 1

\* C2, amended: the polling loop terminates for every behaviour of the
\* interrupt pin; it sleeps at most 15 times and samples the pin once per
\* sleep and once more on leaving, so at most 16 times (exactly 16 samples
\* and 15 sleeps when the pin never asserts); when the pin is asserted at
\* the first sample it samples once and does not sleep.
C2_Counts ==
    /\ send_attempt <= 15
    /\ samples <= 16
    /\ phase = "polling" => (samples = send_attempt /\ ~irq)
    /\ phase = "sleeping" =>
           (samples = send_attempt + 1 /\ send_attempt < 15 /\ ~irq)
    /\ (SendReturned /\ samples > 0) =>
           /\ samples = send_attempt + 1
           /\ (~irq => (send_attempt = 15 /\ samples = 16))

C2_FirstSample ==
    (phase = "polling" /\ samples = 0 /\ samples' = 1 /\ irq') =>
        (phase' = "idle" /\ send_attempt' = 0)

\* C2, amended: the counts hold, a first sample that is asserted ends the
\* loop, and the loop terminates.
C2_PollingTerminates ==
    /\ []C2_Counts
    /\ [][C2_FirstSample]_vars
    /\ (phase \in { "polling", "sleeping" }) ~> (phase = "idle")

\* A send that returned after the pin was never seen asserted.
C2_Witness ==
    SendReturned /\ call.result = "ok" /\ ~irq /\ samples = 16

\* C3: a send_packet call in which no register transaction fails returns
\* normally, whatever the interrupt pin does, and its last register write
\* puts the operating mode register (0x01) to sleep (0x00).
C3_ReturnsToSleep ==
    (SendReturned /\ lora_pkt_len > 0 /\ lora_pkt_len <= Len(lora_pkt)
        /\ call.result \notin { "OSError", "TypeError" }) =>
        /\ call.result = "ok"
        /\ Len(log) > 0
        /\ log[Len(log)] = << "W", 1, 0 >>


\* C4: with the 64-byte frame buffer, send_data with a payload of 51 bytes
\* or fewer assembles a frame of 13 bytes more and starts the transmit
\* sequence with it (a send that then completes has written exactly that
\* frame to the FIFO and triggered the transmission); with a payload of 52
\* bytes or more it fails with an error before any register transaction.
\* The payload is the first data_length bytes of data; a data_length of
\* more bytes than data has is refused in the same way.
C4_CapacityBoundary ==
    call.op = "send_data" =>
        /\ (call.length <= 51 /\ call.length <= Len(call.data)) =>
               /\ call.result # "IndexError"
               /\ lora_pkt_len = call.length + 13
               /\ Len(log) >= 1 /\ log[1][2] = 1
               /\ (SendReturned /\ call.result = "ok") =>
                      /\ \A k \in 1..lora_pkt_len :
                             log[10 + k] = << "W", 0, lora_pkt[k] >>
                      /\ log[11 + lora_pkt_len] = << "W", 1, 131 >>
        /\ (call.length >= 52 \/ call.length > Len(call.data)) =>
               /\ call.result = "IndexError"
               /\ phase = "idle"
               /\ log = << >>

\* A payload of 52 bytes was refused.
C4_Witness ==
    /\ call.op = "send_data" /\ Len(call.data) = 52 /\ call.length = 52
    /\ call.result = "IndexError"

\* C5: the frame send_data hands to send_packet is, for device address a,
\* frame counter fc and an accepted payload of N bytes (the first
\* data_length bytes of data): 0x40, a[3], a[2], a[1], a[0], 0x00,
\* fc mod 256, (fc div 256) mod 256, 0x01, then the N ciphertext bytes,
\* then the 4 MIC bytes; its length is N + 13.
C5_FrameLayout ==
    (call.op = "send_data" /\ call.result # "IndexError") =>
        LET a   == dev_addr
            fc  == frame_counter
            n   == call.length
            hdr == << 64, a[4], a[3], a[2], a[1], 0, fc % 256,
                      (fc \div 256) % 256, 1 >>
            ct  == Encrypt(a, fc, SubSeq(call.data, 1, n))
        IN  /\ n <= Len(call.data)
            /\ lora_pkt_len = n + 13
            /\ SubSeq(lora_pkt, 1, 9) = hdr
            /\ SubSeq(lora_pkt, 10, 9 + n) = ct
            /\ SubSeq(lora_pkt, 10 + n, 13 + n) = CalculateMic(a, fc, hdr \o ct, 9 + n)

\* The frame of a 51-byte payload for address AA BB CC DD and counter 300.
C5_Witness ==
    /\ SendReturned /\ call.result = "ok"
    /\ dev_addr = << 170, 187, 204, 221 >> /\ frame_counter = 300
    /\ Len(call.data) = 51 /\ call.length = 51
    /\ SubSeq(lora_pkt, 1, 9) = << 64, 221, 204, 187, 170, 0, 44, 1, 1 >>

\* The datarate table of the specification: name -> (SF, BW, modem config).
DatarateTable(name) ==
    CASE name = "SF7BW125" -> << 116, 114, 4 >>
      [] name = "SF7BW250" -> << 116, 130, 4 >>
      [] name = "SF8BW125" -> << 132, 114, 4 >>
      [] name = "SF9BW125" -> << 148, 114, 4 >>
      [] name = "SF10BW125" -> << 164, 114, 4 >>
      [] name = "SF11BW125" -> << 180, 114, 12 >>
      [] name = "SF12BW125" -> << 196, 114, 12 >>

TableNames == { "SF7BW125", "SF7BW250", "SF8BW125", "SF9BW125", "SF10BW125",
                "SF11BW125", "SF12BW125" }

\* C6: set_datarate with a name that is none of the seven profiles fails
\* with an error and leaves the stored spreading-factor, bandwidth and
\* modem-config bytes as they were.
C6_StepRejects ==
    (call'.op = "set_datarate" /\ call'.name \notin TableNames) =>
        /\ call'.result = "TypeError"
        /\ sf' = sf /\ bw' = bw /\ modemcfg' = modemcfg

\* C6: every set_datarate call with an invalid name is rejected so.
C6_InvalidNameRejected == [][C6_StepRejects]_vars

\* A name was refused on a driver set to SF12BW125.
C6_Witness ==
    /\ call.op = "set_datarate" /\ call.result = "TypeError"
    /\ << sf, bw, modemcfg >> = << Some(196), Some(114), Some(12) >>

\* C7: in every state after construction the stored (SF, BW, modem config)
\* is one row of the datarate table: the row of the last valid name given
\* to set_datarate, or of SF7BW125 if there was none.
C7_ConsistentTriplet ==
    phase \in { "idle", "sending", "polling", "sleeping" } =>
        /\ last_datarate \in TableNames
        /\ << sf, bw, modemcfg >> =
               << Some(DatarateTable(last_datarate)[1]),
                  Some(DatarateTable(last_datarate)[2]),
                  Some(DatarateTable(last_datarate)[3]) >>

\* A send completed on a driver set to SF11BW125.
C7_Witness ==
    /\ SendReturned /\ call.result = "ok"
    /\ last_datarate = "SF11BW125" /\ modemcfg = Some(12)

\* C8: in single-channel mode, set_channel with an index outside 0..7 fails
\* with an error and leaves the active frequency triplet unchanged.
C8_StepRejects ==
    (call'.op = "set_channel" /\ ~IsNone(channel') /\ call'.index \notin 0..7) =>
        /\ call'.result # "ok"
        /\ rfm_msb' = rfm_msb /\ rfm_mid' = rfm_mid /\ rfm_lsb' = rfm_lsb

\* C8: every out-of-range set_channel call in single-channel mode is
\* rejected so.
C8_OutOfRangeRejected == [][C8_StepRejects]_vars

\* C9: an unrecognized region makes construction fail; a driver whose
\* construction completed has one of the regions US, AS, AU, EU and a
\* frequency table.
C9_RegionResolved ==
    phase = "idle" =>
        /\ country \in { << "U", "S" >>, << "A", "S" >>, << "A", "U" >>,
                         << "E", "U" >> }
        /\ ~IsNone(frequencies)

\* C10: set_channel(i), i in 0..7, on a driver in single-channel mode sets
\* the active triplet to entry i of the region's table, and a send of that
\* driver writes the active triplet to registers 0x06, 0x07, 0x08.
C10_StepSelects ==
    /\ (phase = "idle" /\ call'.op = "set_channel" /\ ~IsNone(channel)
           /\ call'.index \in 0..7) =>
           /\ call'.result = "ok"
           /\ ~IsNone(frequencies)
           /\ << rfm_msb', rfm_mid', rfm_lsb' >> =
                  << Some(TTN_FREQS(Get(frequencies), call'.index)[1]),
                     Some(TTN_FREQS(Get(frequencies), call'.index)[2]),
                     Some(TTN_FREQS(Get(frequencies), call'.index)[3]) >>
    /\ (phase = "sending" /\ ~IsNone(channel)
           /\ Len(log) = 4 /\ Len(log') = 5) =>
           /\ log'[3] = << "W", 6, Get(rfm_msb) >>
           /\ log'[4] = << "W", 7, Get(rfm_mid) >>
           /\ log'[5] = << "W", 8, Get(rfm_lsb) >>

\* C10: every set_channel call and every send of a single-channel driver
\* does so.
C10_ChannelSelected == [][C10_StepSelects]_vars

\* C11: on a driver in hopping mode (no fixed channel) set_channel fails
\* with an error for every index, those in 0..7 included, and leaves the
\* frequency triplet, the frequency plan, the last drawn index and the mode
\* as they were.
C11_StepRejects ==
    (call'.op = "set_channel" /\ IsNone(channel)) =>
        /\ call'.result = "AttributeError_multichannel"
        /\ rfm_msb' = rfm_msb /\ rfm_mid' = rfm_mid /\ rfm_lsb' = rfm_lsb
        /\ frequencies' = frequencies /\ tx_random' = tx_random
        /\ channel' = channel

\* C11: every set_channel call in hopping mode is rejected so.
C11_HoppingRejects == [][C11_StepRejects]_vars

\* set_channel(5) was refused on a hopping driver whose last send had drawn
\* a frequency.
C11_Witness ==
    /\ call.op = "set_channel" /\ call.index = 5 /\ IsNone(channel)
    /\ call.result = "AttributeError_multichannel"
    /\ ~IsNone(rfm_msb) /\ phase = "idle"

\* t is the i-th register transaction of a send whose transactions all
\* succeed, for the frame of the current state: the register, and the
\* value where the frame or the code fixes it.
C12_IsStep(i, t) ==
    /\ t[1] = "W"
    /\ CASE i = 1 -> t[2] = 1 /\ t[3] = 129
         [] i = 2 -> t[2] = 64 /\ t[3] = 64
         [] i = 3 -> t[2] = 6
         [] i = 4 -> t[2] = 7
         [] i = 5 -> t[2] = 8
         [] i = 6 -> t[2] = 30
         [] i = 7 -> t[2] = 29
         [] i = 8 -> t[2] = 38
         [] i = 9 -> t[2] = 34 /\ t[3] = lora_pkt_len
         [] i = 10 -> t[2] = 13 /\ t[3] = 128
         [] i \in 11..(10 + lora_pkt_len) -> t[2] = 0 /\ t[3] = lora_pkt[i - 10]
         [] i = 11 + lora_pkt_len -> t[2] = 1 /\ t[3] = 131
         [] i = 12 + lora_pkt_len -> t[2] = 1 /\ t[3] = 0

\* C12: a send in which a register transaction fails, at whatever step,
\* ends with the bus error at its caller and not normally, and its
\* transactions are those before the failed one and no other: nothing is
\* retried and no later step runs.  A send that goes on to wait or returns
\* normally has issued every transaction up to there.
C12_FaultAborts ==
    /\ (SendCall /\ call.result = "OSError") =>
           /\ phase = "idle"
           /\ Len(log) < 12 + lora_pkt_len
           /\ \A i \in 1..Len(log) : C12_IsStep(i, log[i])
    /\ (SendCall /\ phase = "sending") =>
           /\ call.result = "running"
           /\ Len(log) \in 1..(10 + lora_pkt_len)
           /\ \A i \in 1..Len(log) : C12_IsStep(i, log[i])
    /\ (SendCall /\ phase \in { "polling", "sleeping" }) =>
           /\ call.result = "running"
           /\ Len(log) = 11 + lora_pkt_len
    /\ (SendReturned /\ call.result = "ok") => Len(log) = 12 + lora_pkt_len

\* The write of the third FIFO byte of a 15-byte frame failed.
C12_Witness ==
    /\ SendReturned /\ call.result = "OSError"
    /\ lora_pkt_len = 15 /\ Len(log) = 12
    /\ log[12] = << "W", 0, lora_pkt[2] >>

\* C13: across the send_data calls of a session the stored frame counter
\* never decreases: after a send it is at least what it was before.
C13_StepKeeps ==
    call'.op = "send_data" => frame_counter' >= frame_counter

\* C13: every step keeps the stored frame counter or raises it.
C13_CounterMonotonic == [][C13_StepKeeps]_vars

\* The events w are whole register transactions, one after the other: each
\* starts by taking the device and ends by giving it back; a write sends
\* the address with bit 7 set and one value byte; a read sends the address
\* with bit 7 cleared and receives one byte; a transaction whose exchange
\* failed, or that was refused before its exchange, gives the device back
\* as well.
RECURSIVE C14_Transactions(_)
C14_Transactions(w) ==
    IF Len(w) = 0 THEN TRUE
    ELSE /\ Len(w) >= 2
         /\ w[1].ev = "enter"
         /\ \/ /\ w[2].ev = "exit"
               /\ C14_Transactions(SubSeq(w, 3, Len(w)))
            \/ /\ w[2].ev = "write" /\ Len(w[2].bytes) = 2
               /\ w[2].bytes[1] \in 128..255
               /\ Len(w) >= 3 /\ w[3].ev = "exit"
               /\ C14_Transactions(SubSeq(w, 4, Len(w)))
            \/ /\ w[2].ev = "write" /\ Len(w[2].bytes) = 1
               /\ w[2].bytes[1] \in 0..127
               /\ Len(w) >= 4 /\ w[3].ev = "readinto" /\ Len(w[3].bytes) = 1
               /\ w[4].ev = "exit"
               /\ C14_Transactions(SubSeq(w, 5, Len(w)))
            \/ /\ w[2].ev = "write_fails"
               /\ Len(w) >= 3 /\ w[3].ev = "exit"
               /\ C14_Transactions(SubSeq(w, 4, Len(w)))

\* The register transactions that the events w completed, as the driver
\* meant them: the register addressed and the value written or read.
RECURSIVE C14_Completed(_)
C14_Completed(w) ==
    IF Len(w) < 3 THEN << >>
    ELSE IF w[2].ev = "exit" THEN C14_Completed(SubSeq(w, 3, Len(w)))
    ELSE IF w[2].ev = "write" /\ Len(w[2].bytes) = 2
    THEN << << "W", w[2].bytes[1] - 128, w[2].bytes[2] >> >>
         \o C14_Completed(SubSeq(w, 4, Len(w)))
    ELSE IF w[2].ev = "write" /\ Len(w) >= 4
    THEN << << "R", w[2].bytes[1], w[3].bytes[1] >> >>
         \o C14_Completed(SubSeq(w, 5, Len(w)))
    ELSE C14_Completed(SubSeq(w, 4, Len(w)))

\* How many transactions hold the device after the first k events of w.
C14_Held(w, k) ==
    Cardinality({ i \in 1..k : w[i].ev = "enter" })
        - Cardinality({ i \in 1..k : w[i].ev = "exit" })

\* C14: every register transaction takes the device at its start and
\* gives it back on every way out, a failed byte exchange included, so no
\* transaction starts while another holds the device and none holds it
\* when a call ends; a write sends the register address with bit 7 set
\* and then one value byte, a read sends it with bit 7 cleared and then
\* receives one byte.
C14_ScopedTransactions ==
    /\ C14_Transactions(wire)
    /\ C14_Completed(wire) = log
    /\ \A k \in 1..Len(wire) :
           /\ C14_Held(wire, k) \in { 0, 1 }
           /\ wire[k].ev = "enter" => C14_Held(wire, k) = 1
    /\ C14_Held(wire, Len(wire)) = 0
    /\ (SendCall /\ call.result = "OSError") =>
           /\ Len(wire) >= 3
           /\ wire[Len(wire) - 1].ev = "write_fails"
           /\ wire[Len(wire)].ev = "exit"

\* The write of the frequency LSB failed in a send, after the version read
\* of the constructor: the device was given back.
C14_Witness ==
    /\ SendReturned /\ call.result = "OSError" /\ Len(log) = 4
    /\ wire[Len(wire) - 1] = [ ev |-> "write_fails", bytes |-> << 136, Get(rfm_lsb) >> ]
    /\ wire[Len(wire)].ev = "exit"

\* The configuration writes of construction, as (register, value) pairs.
C15_ConfigWrites ==
    << << "W", 1, 0 >>, << "W", 1, 128 >>, << "W", 9, 255 >>, << "W", 31, 37 >>,
       << "W", 32, 0 >>, << "W", 33, 8 >>, << "W", 38, 12 >>, << "W", 57, 52 >>,
       << "W", 51, 39 >>, << "W", 59, 29 >>, << "W", 14, 128 >>, << "W", 15, 0 >> >>

\* C15: a construction that gets to the radio reads the version register
\* (0x42) once, first, and whatever value comes back, 18 or not, it does
\* not abort and goes on to issue the same complete sequence of
\* configuration writes.
C15_VersionNotFatal ==
    (call.op = "init" /\ Len(log) > 0) =>
        /\ phase = "idle" /\ call.result = "ok"
        /\ log[1][1] = "R" /\ log[1][2] = 66
        /\ \A i \in 2..Len(log) : log[i][1] = "W"
        /\ SubSeq(log, 2, Len(log)) = C15_ConfigWrites

\* A construction completed after the version register read 0.
C15_Witness ==
    /\ call.op = "init" /\ phase = "idle"
    /\ log[1] = << "R", 66, 0 >> /\ Len(log) = 13

\* The positions in the log of the writes to the operating-mode register
\* (0x01), and of those among them that write the transmit value (0x83).
C16_ModeWrites == { i \in 1..Len(log) : log[i][2] = 1 }
C16_Triggers == { i \in 1..Len(log) : log[i] = << "W", 1, 131 >> }

\* The operating-mode writes of a completed send are three, with the values
\* standby, 0x83 and 0x00 in this order; no send writes the transmit value
\* more than once.
C16_ModeSequence(standby) ==
    /\ SendCall => Cardinality(C16_Triggers) <= 1
    /\ (SendReturned /\ call.result = "ok") =>
           /\ C16_ModeWrites = { 1, 11 + lora_pkt_len, 12 + lora_pkt_len }
           /\ log[1][3] = standby
           /\ log[11 + lora_pkt_len][3] = 131
           /\ log[12 + lora_pkt_len][3] = 0
           /\ Cardinality(C16_Triggers) = 1

\* C16 as stated: each completed send writes the operating-mode register
\* exactly three times, with the values 0x01 (standby), 0x83 (transmit) and
\* 0x00 (sleep) in this order, and the transmit value exactly once.
C16_ThreeModeWrites == C16_ModeSequence(1)

\* C16, amended: each completed send writes the operating-mode register
\* exactly three times, with the values 0x81 (standby with the LoRa mode
\* bit set), 0x83 (transmit) and 0x00 (sleep) in this order; the transmit
\* value is written exactly once, and at most once in a send that fails.
C16_ThreeModeWritesLoRa == C16_ModeSequence(129)

\* A send of an empty payload completed with the pin asserted at once; its
\* first write put 0x81 into the operating-mode register.
C16_Witness ==
    /\ SendReturned /\ call.result = "ok" /\ irq /\ samples = 1
    /\ lora_pkt_len = 13 /\ log[1] = << "W", 1, 129 >>

\* The positions in the log of the writes to the FIFO register (0x00).
C17_FifoWrites == { i \in 1..Len(log) : log[i][2] = 0 }

\* C17: for the frame of length L that is handed to send_packet, the
\* value written to the payload-length register (0x22) is L; the writes to
\* the FIFO register (0x00) all lie between the FIFO pointer reset and the
\* transmit trigger, the k-th of them carries the k-th byte of the frame,
\* and once the trigger is written there are exactly L of them: no byte of
\* the 64-byte buffer past the frame is written.
C17_FifoCarriesFrame ==
    (SendCall /\ lora_pkt_len <= Len(lora_pkt)) =>
        /\ Len(log) >= 9 => log[9] = << "W", 34, lora_pkt_len >>
        /\ Len(log) >= 10 => log[10] = << "W", 13, 128 >>
        /\ \A i \in C17_FifoWrites :
               /\ i \in 11..(10 + lora_pkt_len)
               /\ log[i] = << "W", 0, lora_pkt[i - 10] >>
        /\ Len(log) >= 11 + lora_pkt_len =>
               /\ C17_FifoWrites = 11..(10 + lora_pkt_len)
               /\ log[11 + lora_pkt_len] = << "W", 1, 131 >>

\* A 14-byte frame in the 64-byte buffer was sent: 14 FIFO writes, the last
\* with the last MIC byte, then the trigger.
C17_Witness ==
    /\ SendReturned /\ call.result = "ok"
    /\ lora_pkt_len = 14 /\ Len(lora_pkt) = 64
    /\ Cardinality(C17_FifoWrites) = 14
    /\ log[24] = << "W", 0, lora_pkt[14] >> /\ lora_pkt[14] # lora_pkt[1]

\* The step of a send that resolves the frequency and comes to the write
\* of register 0x06, and in which that write did not fail on the bus.
C18_ResolveStep ==
    /\ phase = "sending" /\ Len(log) = 2
    /\ call'.result # "OSError"

\* The step of a send that writes register 0x08.
C18_LastWriteStep ==
    /\ phase = "sending" /\ Len(log) = 4 /\ Len(log') = 5

\* The send of the step has written the triplet t to registers 0x06, 0x07,
\* 0x08.
C18_Wrote(t) ==
    /\ log'[3] = << "W", 6, t[1] >>
    /\ log'[4] = << "W", 7, t[2] >>
    /\ log'[5] = << "W", 8, t[3] >>

\* C18: a send in hopping mode draws an index in 0..7 and writes that
\* entry of the region's table to the frequency registers; a send in
\* single-channel mode draws nothing, leaves the active triplet as it was
\* and writes it, so that consecutive sends write the same three bytes.
C18_StepResolves ==
    /\ C18_ResolveStep =>
           /\ Len(log') = 3
           /\ IF IsNone(channel)
              THEN /\ tx_random' \in 0..7
                   /\ ~IsNone(frequencies)
                   /\ << rfm_msb', rfm_mid', rfm_lsb' >> =
                          << Some(TTN_FREQS(Get(frequencies), tx_random')[1]),
                             Some(TTN_FREQS(Get(frequencies), tx_random')[2]),
                             Some(TTN_FREQS(Get(frequencies), tx_random')[3]) >>
                   /\ log'[3] = << "W", 6, Get(rfm_msb') >>
              ELSE /\ tx_random' = tx_random
                   /\ rfm_msb' = rfm_msb /\ rfm_mid' = rfm_mid /\ rfm_lsb' = rfm_lsb
                   /\ ~IsNone(rfm_msb) /\ ~IsNone(rfm_mid) /\ ~IsNone(rfm_lsb)
                   /\ log'[3] = << "W", 6, Get(rfm_msb) >>
    /\ C18_LastWriteStep =>
           /\ tx_random' = tx_random
           /\ rfm_msb' = rfm_msb /\ rfm_mid' = rfm_mid /\ rfm_lsb' = rfm_lsb
           /\ IF IsNone(channel)
              THEN C18_Wrote(TTN_FREQS(Get(frequencies), tx_random))
              ELSE C18_Wrote(<< Get(rfm_msb), Get(rfm_mid), Get(rfm_lsb) >>)

\* C18: every send resolves its frequency so.
C18_FrequencyAtSend == [][C18_StepResolves]_vars

\* C19: on a driver constructed in single-channel mode the active frequency
\* triplet is, in every state after construction, defined and equal to one
\* of the 8 entries of the region's table, and no send comes to write an
\* undefined value to the frequency registers.
C19_TripletDefined ==
    (phase \in { "idle", "sending", "polling", "sleeping" } /\ ~IsNone(channel)) =>
        /\ ~IsNone(frequencies)
        /\ ~IsNone(rfm_msb) /\ ~IsNone(rfm_mid) /\ ~IsNone(rfm_lsb)
        /\ \E i \in 0..7 :
               << Get(rfm_msb), Get(rfm_mid), Get(rfm_lsb) >>
                   = TTN_FREQS(Get(frequencies), i)
        /\ call.result # "TypeError"

=============================================================================
